---- MODULE Spec2Model ----
(***************************************************************************)
(* Model of package tuntap (src/tuntap/tun.go): the IPHeader accessors and *)
(* setters, the Interface handle (Open, Close, Name) and the packet codec  *)
(* (ReadPacket, WritePacket).                                              *)
(*                                                                         *)
(* Go byte slices are modelled as views (arr, off, len, cap) into a heap   *)
(* of backing arrays, so that aliasing between a header, a payload and the *)
(* read buffer is visible in the model.  A backing array is kept as its    *)
(* size and the bytes up to the last one written; the bytes behind them    *)
(* are the zeroes the allocation put there.                                *)
(***************************************************************************)
EXTENDS Integers, Sequences, FiniteSets, TLC

VARIABLES heap, pkt, held, iface, file, wire, ret, cnt

vars == <<heap, pkt, held, iface, file, wire, ret, cnt>>

(***************************************************************************)
(* Program constants                                                       *)
(***************************************************************************)
ipHeaderLength == 40

addrLength == 16

\* make([]byte, 10000) in ReadPacket
ReadBufSize == 10000

(***************************************************************************)
(* Bounds of the model                                                     *)
(***************************************************************************)
\* number of setter calls made on one header
MaxSets == 2

\* spare capacity behind the 40 header bytes of a header's backing array
MaxSpare == 2

\* calls of ReadPacket, WritePacket and Close made on one handle
MaxCalls == 3

\* largest declared payload length among the small frames and packets
MaxL == 1

(***************************************************************************)
(* Go slices over a heap of backing arrays                                 *)
(***************************************************************************)
Min(a, b) == IF a < b THEN a ELSE b

\* the nil slice
NilSlice == [arr |-> 0, off |-> 0, len |-> 0, cap |-> 0]

\* a slice covering the whole of backing array a of length n
WholeSlice(a, n) == [arr |-> a, off |-> 0, len |-> n, cap |-> n]

\* a backing array holding the bytes b, and make([]byte, n)
ArrayOf(b) == [size |-> Len(b), data |-> b]

MakeArray(n) == [size |-> n, data |-> <<>>]

\* the first n bytes of a backing array a, n at most its size
Bytes(a, n) ==
    IF n <= Len(a.data) THEN SubSeq(a.data, 1, n)
    ELSE a.data \o [i \in 1..(n - Len(a.data)) |-> 0]

\* the bytes a slice shows, as a sequence
View(h, s) ==
    IF s.len = 0 THEN <<>>
    ELSE SubSeq(Bytes(h[s.arr], s.off + s.len), s.off + 1, s.off + s.len)

\* s[lo:hi]
SliceOf(s, lo, hi) ==
    [arr |-> s.arr, off |-> s.off + lo, len |-> hi - lo, cap |-> s.cap - lo]

\* s[lo:hi] panics unless 0 <= lo <= hi <= cap(s)
SliceOK(s, lo, hi) == 0 <= lo /\ lo <= hi /\ hi <= s.cap

\* append(s, xs...): in place when the capacity allows, else a new array.
\* xs is the value of the source bytes at the time of the call (memmove).
GoAppend(h, s, xs) ==
    IF Len(xs) = 0 THEN [heap |-> h, slice |-> s]
    ELSE IF s.len + Len(xs) <= s.cap
    THEN [heap  |-> [h EXCEPT ![s.arr].data =
                        Bytes(h[s.arr], s.off + s.len) \o xs
                        \o SubSeq(@, s.off + s.len + Len(xs) + 1, Len(@))],
          slice |-> [s EXCEPT !.len = s.len + Len(xs)]]
    ELSE [heap  |-> Append(h, ArrayOf(View(h, s) \o xs)),
          slice |-> WholeSlice(Len(h) + 1, s.len + Len(xs))]

\* arrays allocated by a call and unreachable after it are dropped
Collect(h, n) == SubSeq(h, 1, n)

(***************************************************************************)
(* IPHeader                                                                *)
(***************************************************************************)
\* binary.BigEndian.Uint16
BigEndianUint16(b) == b[1] * 256 + b[2]

version(h, d) == View(h, d)[1] \div 16

PayloadLength(h, d) == BigEndianUint16(View(h, SliceOf(d, 4, 6)))

SourceAddr(d) == SliceOf(d, 8, 24)

DestAddr(d) == SliceOf(d, 24, 40)

ErrNone == "nil"

ErrIPv6Required == "IPv6 headers are required"

\* SetSourceAddr splicing at the destination's offset
SetSourceAddrAt24(h, d, a) ==
    IF a.len = addrLength
    THEN LET b  == SliceOf(d, 24, d.len)
             r1 == GoAppend(h, SliceOf(d, 0, 24), View(h, a))
             r2 == GoAppend(r1.heap, r1.slice, View(r1.heap, b))
         IN  [heap |-> Collect(r2.heap, Len(h)), err |-> ErrNone]
    ELSE [heap |-> h, err |-> ErrIPv6Required]

\* SetSourceAddr on a header whose Data is d, with argument slice a.  The
\* receiver is a value: the caller's Data keeps its offset, length and
\* capacity, only the bytes of the backing arrays can change.
SetSourceAddr(h, d, a) ==
    IF a.len = addrLength
    THEN LET b  == SliceOf(d, 24, d.len)
             r1 == GoAppend(h, SliceOf(d, 0, 8), View(h, a))
             r2 == GoAppend(r1.heap, r1.slice, View(r1.heap, b))
         IN  [heap |-> Collect(r2.heap, Len(h)), err |-> ErrNone]
    ELSE [heap |-> h, err |-> ErrIPv6Required]

\* SetDestAddr accepting every argument of 16 bytes or more
SetDestAddrAtLeast(h, d, a) ==
    IF a.len >= addrLength
    THEN LET r1 == GoAppend(h, SliceOf(d, 0, 24), View(h, a))
         IN  [heap |-> Collect(r1.heap, Len(h)), err |-> ErrNone]
    ELSE [heap |-> h, err |-> ErrIPv6Required]

SetDestAddr(h, d, a) ==
    IF a.len = addrLength
    THEN LET r1 == GoAppend(h, SliceOf(d, 0, 24), View(h, a))
         IN  [heap |-> Collect(r1.heap, Len(h)), err |-> ErrNone]
    ELSE [heap |-> h, err |-> ErrIPv6Required]

(***************************************************************************)
(* Values shared by the specifications                                     *)
(***************************************************************************)
NoPacket ==
    [valid |-> FALSE, Protocol |-> 0, Truncated |-> FALSE,
     Header |-> NilSlice, Payload |-> NilSlice]

NoIface == [valid |-> FALSE, name |-> "", meta |-> FALSE]

\* the last call: its result (err, n, name) and what it was given (serr: the
\* error of the stream call or of openDevice, cerr: the error of
\* createInterface, a: the bytes exchanged with the stream or the setter's
\* argument, before/hb/pb: bytes as they were when the call was made)
NoRet ==
    [op |-> "none", err |-> ErrNone, serr |-> ErrNone, n |-> 0, a |-> <<>>,
     cerr |-> ErrNone, before |-> <<>>, hb |-> <<>>, pb |-> <<>>, proto |-> 0,
     name |-> "", meta |-> FALSE, loop |-> FALSE]

NoCnt == [sets |-> 0, reads |-> 0, writes |-> 0, closes |-> 0, opens |-> 0]

\* the stream: whether openDevice produced it, the Close calls it received
\* and the result of the last of them
NoFile == [state |-> "none", closes |-> 0, lastErr |-> ErrNone]

\* the bytes the stream accepted in the last complete write, with the
\* lengths of the header and payload of the packet they came from
NoWire == [valid |-> FALSE, bytes |-> <<>>, hlen |-> 0, plen |-> 0]

(***************************************************************************)
(* Specification of the header model: a caller holding one 40-byte header  *)
(* calls the setters with arguments of several lengths, some of them views *)
(* of the header itself.                                                   *)
(***************************************************************************)
\* 40 header bytes: version byte, payload length, two address regions
HeaderBytes(b0, L, s, d) ==
    [i \in 1..ipHeaderLength |->
        IF i = 1 THEN b0
        ELSE IF i = 5 THEN (L \div 256) % 256
        ELSE IF i = 6 THEN L % 256
        ELSE IF i \in 9..24 THEN s + i
        ELSE IF i \in 25..40 THEN d + i
        ELSE 0]

Fill(n, v) == [i \in 1..n |-> v]

Ramp(n, v) == [i \in 1..n |-> (v + i) % 256]

VersionBytes == {69, 96}

\* the version byte of the frames declaring L: IPv6 and IPv4 in turn
VersionOf(L) == IF L % 2 = 1 THEN 96 ELSE 69

ArgLens == {0, 1, 15, 16, 17, 32}

\* the arguments handed to a setter: slices of a separate 32-byte array,
\* and 16-byte views of the header's own backing array
ArgSlices(d) ==
    {[arr |-> 2, off |-> 0, len |-> n, cap |-> 32] : n \in ArgLens}
    \cup {SliceOf(d, o, o + addrLength) : o \in {8, 20, 24}}

InitHeader ==
    /\ \E b0 \in VersionBytes, L \in {0, 513}, s \in {16, 48}, spare \in 0..MaxSpare :
          /\ heap = << ArrayOf(HeaderBytes(b0, L, s, 128) \o Ramp(spare, 200)),
                       ArrayOf(Ramp(32, 100)) >>
          /\ pkt = [NoPacket EXCEPT !.valid = TRUE,
                       !.Header = [arr |-> 1, off |-> 0, len |-> ipHeaderLength,
                                   cap |-> ipHeaderLength + spare]]
    /\ held = {}
    /\ iface = NoIface
    /\ file = NoFile
    /\ wire = NoWire
    /\ ret = NoRet
    /\ cnt = NoCnt

CallSetSourceAddr ==
    /\ cnt.sets < MaxSets
    /\ \E a \in ArgSlices(pkt.Header) :
          LET r == SetSourceAddr(heap, pkt.Header, a)
          IN  /\ heap' = r.heap
              /\ ret' = [NoRet EXCEPT !.op = "SetSourceAddr", !.err = r.err,
                            !.a = View(heap, a), !.before = heap[1].data]
    /\ cnt' = [cnt EXCEPT !.sets = @ + 1]
    /\ UNCHANGED <<pkt, held, iface, file, wire>>

CallSetDestAddr ==
    /\ cnt.sets < MaxSets
    /\ \E a \in ArgSlices(pkt.Header) :
          LET r == SetDestAddr(heap, pkt.Header, a)
          IN  /\ heap' = r.heap
              /\ ret' = [NoRet EXCEPT !.op = "SetDestAddr", !.err = r.err,
                            !.a = View(heap, a), !.before = heap[1].data]
    /\ cnt' = [cnt EXCEPT !.sets = @ + 1]
    /\ UNCHANGED <<pkt, held, iface, file, wire>>

NextHeader == CallSetSourceAddr \/ CallSetDestAddr

SpecHeader == InitHeader /\ [][NextHeader]_vars

\* the caller's header bytes, and the same bytes before the last call
HdrNow == View(heap, pkt.Header)

HdrBefore == SubSeq(ret.before, 1, ipHeaderLength)

IsSetter == ret.op \in {"SetSourceAddr", "SetDestAddr"}

\* C5: a setter called with an argument whose length is not 16 returns the
\* size-mismatch error and leaves every byte of the header's backing array
\* (the 40 header bytes included) as it was.
C5_AllOrNothing ==
    (IsSetter /\ Len(ret.a) # addrLength) =>
        /\ ret.err = ErrIPv6Required
        /\ HdrNow = HdrBefore
        /\ heap[1].data = ret.before

C5_Witness ==
    /\ IsSetter /\ Len(ret.a) \in {0, 1, 15, 17, 32}
    /\ ret.err = ErrIPv6Required

\* C6: a setter called with a 16-byte argument a succeeds; after SetDestAddr
\* the header's DestAddr() is a and bytes [0,24) are unchanged, after
\* SetSourceAddr its SourceAddr() is a and bytes [0,8) and [24,40) are
\* unchanged; the header is 40 bytes long.
C6_OwnRegionOnly ==
    (IsSetter /\ Len(ret.a) = addrLength) =>
        /\ ret.err = ErrNone
        /\ pkt.Header.len = ipHeaderLength
        /\ Len(HdrNow) = ipHeaderLength
        /\ ret.op = "SetDestAddr" =>
              /\ View(heap, DestAddr(pkt.Header)) = ret.a
              /\ SubSeq(HdrNow, 1, 24) = SubSeq(HdrBefore, 1, 24)
              /\ View(heap, SourceAddr(pkt.Header)) = SubSeq(HdrBefore, 9, 24)
        /\ ret.op = "SetSourceAddr" =>
              /\ View(heap, SourceAddr(pkt.Header)) = ret.a
              /\ SubSeq(HdrNow, 1, 8) = SubSeq(HdrBefore, 1, 8)
              /\ SubSeq(HdrNow, 25, 40) = SubSeq(HdrBefore, 25, 40)
              /\ View(heap, DestAddr(pkt.Header)) = SubSeq(HdrBefore, 25, 40)

C6_Witness ==
    /\ ret.op = "SetSourceAddr" /\ Len(ret.a) = addrLength
    /\ ret.err = ErrNone
    /\ HdrNow # HdrBefore
    /\ View(heap, SourceAddr(pkt.Header)) = ret.a

(***************************************************************************)
(* Interface: Open, Close, Name                                            *)
(***************************************************************************)
ErrOpenDevice == "openDevice failed"

ErrCreateInterface == "createInterface failed"

ErrClosed == "os: file already closed"

ErrStream == "stream error"

ErrEOF == "EOF"

ErrNotIPv6 == "Not a IPv6 packet"

ErrPayloadLength == "Payload length not matching"

ErrShortWrite == "short write"

ErrPanic == "panic: slice bounds out of range"

DevKinds == {"DevTun", "DevTap"}

Patterns == {"tun%d", "tun42"}

\* openDevice(ifPattern): a stream or an error
OpenDeviceOutcomes == {ErrNone, ErrOpenDevice}

\* createInterface(file, ifPattern, kind, meta): the resolved name or an error
CreateInterfaceOutcomes(ifPattern) ==
    {[name |-> IF ifPattern = "tun%d" THEN "tun0" ELSE ifPattern, err |-> ErrNone],
     [name |-> "", err |-> ErrCreateInterface]}

\* os.File.Close: closes an open stream, fails on a closed one
FileClose(f, res) ==
    IF f.state = "open"
    THEN [state |-> "closed", closes |-> f.closes + 1, lastErr |-> res]
    ELSE [state |-> f.state, closes |-> f.closes + 1, lastErr |-> ErrClosed]

\* Open returning on a createInterface failure without closing the stream
OpenNoClose(dev, cre, meta) ==
    IF dev # ErrNone
    THEN [iface |-> NoIface, file |-> NoFile, err |-> dev]
    ELSE LET f == [state |-> "open", closes |-> 0, lastErr |-> ErrNone]
         IN  IF cre.err # ErrNone
             THEN [iface |-> NoIface, file |-> f, err |-> cre.err]
             ELSE [iface |-> [valid |-> TRUE, name |-> cre.name, meta |-> meta],
                   file  |-> f, err |-> ErrNone]

\* Open, given what openDevice and createInterface return
Open(dev, cre, meta) ==
    IF dev # ErrNone
    THEN [iface |-> NoIface, file |-> NoFile, err |-> dev]
    ELSE LET f == [state |-> "open", closes |-> 0, lastErr |-> ErrNone]
         IN  IF cre.err # ErrNone
             THEN [iface |-> NoIface, file |-> FileClose(f, ErrNone), err |-> cre.err]
             ELSE [iface |-> [valid |-> TRUE, name |-> cre.name, meta |-> meta],
                   file  |-> f, err |-> ErrNone]

\* Close dropping the result of the stream's close
CloseNoResult(f, res) ==
    LET g == FileClose(f, res) IN [file |-> g, err |-> ErrNone]

\* Interface.Close: the stream after the call, and the call's result
Close(f, res) ==
    LET g == FileClose(f, res) IN [file |-> g, err |-> g.lastErr]

Name(t) == t.name

(***************************************************************************)
(* ReadPacket                                                              *)
(***************************************************************************)
\* os.File.Read into make([]byte, ReadBufSize), the stream offering the
\* bytes src.bytes (or failing with src.err): the count, the error and the
\* buffer after the call
FileRead(f, src) ==
    LET n == Min(Len(src.bytes), ReadBufSize)
        zero == MakeArray(ReadBufSize)
    IN  IF f.state # "open" THEN [n |-> 0, err |-> ErrClosed, buf |-> zero]
        ELSE IF src.err # ErrNone THEN [n |-> 0, err |-> src.err, buf |-> zero]
        ELSE IF n = 0 THEN [n |-> 0, err |-> ErrEOF, buf |-> zero]
        ELSE [n |-> n, err |-> ErrNone,
              buf |-> [zero EXCEPT !.data = SubSeq(src.bytes, 1, n)]]

\* ReadPacket rejecting only a payload shorter than declared
ReadPacketAtLeast(h, t, rd) ==
    LET buf   == WholeSlice(Len(h) + 1, ReadBufSize)
        h1    == Append(h, rd.buf)
        start == 0
        p     == [valid |-> TRUE, Protocol |-> 0, Truncated |-> FALSE,
                  Header  |-> SliceOf(buf, start, start + ipHeaderLength),
                  Payload |-> SliceOf(buf, start + ipHeaderLength, rd.n)]
    IN  IF rd.err # ErrNone THEN [heap |-> h, pkt |-> NoPacket, err |-> rd.err]
        ELSE IF rd.n < start + ipHeaderLength
        THEN [heap |-> h, pkt |-> NoPacket, err |-> ErrNotIPv6]
        ELSE IF PayloadLength(h1, p.Header) > p.Payload.len
        THEN [heap |-> h, pkt |-> NoPacket, err |-> ErrPayloadLength]
        ELSE [heap |-> h1, pkt |-> [p EXCEPT !.Protocol = version(h1, p.Header)],
              err |-> ErrNone]

\* ReadPacket on handle t, rd being what t.file.Read returned
ReadPacket(h, t, rd) ==
    LET buf   == WholeSlice(Len(h) + 1, ReadBufSize)
        h1    == Append(h, rd.buf)
        start == 0
        p     == [valid |-> TRUE, Protocol |-> 0, Truncated |-> FALSE,
                  Header  |-> SliceOf(buf, start, start + ipHeaderLength),
                  Payload |-> SliceOf(buf, start + ipHeaderLength, rd.n)]
    IN  IF rd.err # ErrNone THEN [heap |-> h, pkt |-> NoPacket, err |-> rd.err]
        ELSE IF rd.n < start + ipHeaderLength
        THEN [heap |-> h, pkt |-> NoPacket, err |-> ErrNotIPv6]
        ELSE IF PayloadLength(h1, p.Header) # p.Payload.len
        THEN [heap |-> h, pkt |-> NoPacket, err |-> ErrPayloadLength]
        ELSE [heap |-> h1, pkt |-> [p EXCEPT !.Protocol = version(h1, p.Header)],
              err |-> ErrNone]

(***************************************************************************)
(* WritePacket                                                             *)
(***************************************************************************)
\* os.File.Write of the bytes b: all of them, or fewer with an error
FileWrite(f, b, out) ==
    IF f.state # "open" THEN [n |-> 0, err |-> ErrClosed]
    ELSE IF out = "full" \/ Len(b) = 0 THEN [n |-> Len(b), err |-> ErrNone]
    ELSE IF out = "short" THEN [n |-> Len(b) - 1, err |-> ErrShortWrite]
    ELSE [n |-> 0, err |-> ErrStream]

WriteOutcomes == {"full", "short", "error"}

\* WritePacket comparing the count with the declared payload length alone
WritePacketNoHeader(h, f, packet, out) ==
    LET r == GoAppend(h, packet.Header, View(h, packet.Payload))
        b == View(r.heap, r.slice)
        w == FileWrite(f, b, out)
    IN  [heap |-> Collect(r.heap, Len(h)), buf |-> b, n |-> w.n, serr |-> w.err,
         err  |-> IF w.err # ErrNone THEN w.err
                  ELSE IF ~SliceOK(packet.Header, 4, 6) THEN ErrPanic
                  ELSE IF w.n # PayloadLength(r.heap, packet.Header)
                  THEN ErrShortWrite
                  ELSE ErrNone]

\* WritePacket of packet on the stream f, out being how the stream behaves
WritePacket(h, f, packet, out) ==
    LET r == GoAppend(h, packet.Header, View(h, packet.Payload))
        b == View(r.heap, r.slice)
        w == FileWrite(f, b, out)
    IN  [heap |-> Collect(r.heap, Len(h)), buf |-> b, n |-> w.n, serr |-> w.err,
         err  |-> IF w.err # ErrNone THEN w.err
                  ELSE IF ~SliceOK(packet.Header, 4, 6) THEN ErrPanic
                  ELSE IF w.n # ipHeaderLength + PayloadLength(r.heap, packet.Header)
                  THEN ErrShortWrite
                  ELSE ErrNone]

(***************************************************************************)
(* Specification of the handle and the codec: a caller opens a handle,     *)
(* builds or reads packets, replaces a payload, writes, closes.  The       *)
(* stream offers frames of its own or the bytes last written to it.        *)
(***************************************************************************)
\* the frames the stream offers: a 40-byte header declaring L followed by
\* L-1, L or L+1 bytes, and frames shorter than a header
Frames ==
    {HeaderBytes(VersionOf(L), L, 16, 128) \o Ramp(k, 7) :
        L \in 0..MaxL, k \in 0..(MaxL + 1)}
    \cup {SubSeq(HeaderBytes(96, 0, 16, 128), 1, m) : m \in {0, 1, 39}}

\* what a read finds on the stream: the bytes last written to it
LoopSources ==
    IF wire.valid
    THEN {[err |-> ErrNone, bytes |-> wire.bytes, loop |-> TRUE]}
    ELSE {}

\* what a read finds on the stream: an error, a frame, the bytes last written
ReadSources ==
    {[err |-> ErrStream, bytes |-> <<>>, loop |-> FALSE]}
    \cup {[err |-> ErrNone, bytes |-> f, loop |-> FALSE] :
            f \in {g \in Frames :
                     Len(g) < ipHeaderLength
                     \/ Len(g) - ipHeaderLength - BigEndianUint16(SubSeq(g, 5, 6))
                          \in {-1, 0, 1}}}
    \cup LoopSources

\* the packets a caller builds: one without a header, and packets with a
\* 40-byte header declaring L over a payload of L or L+1 bytes
PacketShapes ==
    {[hdr |-> FALSE, L |-> 0, m |-> 46, fill |-> 0, proto |-> 2048]}
    \cup {[hdr |-> TRUE, L |-> L, m |-> L + d, fill |-> 9, proto |-> 34525] :
            L \in 0..MaxL, d \in {0, 1}}

\* packets as large as the read buffer, and one byte larger
LargeShapes ==
    {[hdr |-> TRUE, L |-> L, m |-> L, fill |-> 9, proto |-> 34525] :
        L \in {ReadBufSize - ipHeaderLength, ReadBufSize - ipHeaderLength + 1}}

\* the calls made on the handle so far
Calls == cnt.reads + cnt.writes + cnt.closes

Init ==
    /\ heap = <<>>
    /\ pkt = NoPacket
    /\ held = {}
    /\ iface = NoIface
    /\ file = NoFile
    /\ wire = NoWire
    /\ ret = NoRet
    /\ cnt = NoCnt

CallOpen ==
    /\ cnt.opens = 0
    /\ \E ifPattern \in Patterns, kind \in DevKinds, meta \in BOOLEAN,
          dev \in OpenDeviceOutcomes :
          \E cre \in CreateInterfaceOutcomes(ifPattern) :
             LET r == Open(dev, cre, meta)
             IN  /\ iface' = r.iface
                 /\ file' = r.file
                 /\ ret' = [NoRet EXCEPT !.op = "Open", !.err = r.err,
                               !.serr = dev, !.cerr = cre.err,
                               !.name = cre.name, !.meta = meta]
    /\ cnt' = [cnt EXCEPT !.opens = 1]
    /\ UNCHANGED <<heap, pkt, held, wire>>

CallClose ==
    /\ iface.valid
    /\ Calls < MaxCalls
    /\ \E res \in {ErrNone, ErrStream} :
          LET r == Close(file, res)
          IN  /\ file' = r.file
              /\ ret' = [NoRet EXCEPT !.op = "Close", !.err = r.err]
    /\ cnt' = [cnt EXCEPT !.closes = @ + 1]
    /\ UNCHANGED <<heap, pkt, held, iface, wire>>

CallName ==
    /\ iface.valid
    /\ ret' = [NoRet EXCEPT !.op = "Name", !.name = Name(iface)]
    /\ UNCHANGED <<heap, pkt, held, iface, file, wire, cnt>>

\* the caller builds a packet in arrays of its own
NewPacketOf(shapes) ==
    /\ ~pkt.valid
    /\ \E sh \in shapes :
          LET hs == IF sh.hdr THEN <<ArrayOf(HeaderBytes(96, sh.L, 16, 128))>> ELSE <<>>
              h1 == heap \o hs
          IN  /\ heap' = Append(h1, ArrayOf(Fill(sh.m, sh.fill)))
              /\ pkt' = [valid |-> TRUE, Protocol |-> sh.proto, Truncated |-> FALSE,
                         Header  |-> IF sh.hdr
                                     THEN WholeSlice(Len(h1), ipHeaderLength)
                                     ELSE NilSlice,
                         Payload |-> WholeSlice(Len(h1) + 1, sh.m)]
    /\ ret' = [NoRet EXCEPT !.op = "NewPacket"]
    /\ UNCHANGED <<held, iface, file, wire, cnt>>

NewPacket == NewPacketOf(PacketShapes)

NewLargePacket == NewPacketOf(PacketShapes \cup LargeShapes)

\* the caller replaces the Payload of a packet it got from ReadPacket and
\* keeps the slice that was there
ReplacePayload ==
    /\ pkt.valid
    /\ pkt.Payload.arr = pkt.Header.arr
    /\ \E m \in 1..MaxL :
          /\ heap' = Append(heap, ArrayOf(Ramp(m, 50)))
          /\ pkt' = [pkt EXCEPT !.Payload = WholeSlice(Len(heap) + 1, m)]
    /\ held' = held \cup {pkt.Payload}
    /\ ret' = [NoRet EXCEPT !.op = "ReplacePayload"]
    /\ UNCHANGED <<iface, file, wire, cnt>>

ReadPacketFrom(sources) ==
    /\ iface.valid
    /\ Calls < MaxCalls
    /\ \E src \in sources :
          LET rd == FileRead(file, src)
              r  == ReadPacket(heap, iface, rd)
          IN  /\ heap' = r.heap
              /\ pkt' = IF r.err = ErrNone THEN r.pkt ELSE pkt
              /\ held' = IF r.err = ErrNone /\ pkt.valid
                         THEN held \cup {pkt.Header, pkt.Payload} ELSE held
              /\ ret' = [NoRet EXCEPT !.op = "ReadPacket", !.err = r.err,
                            !.serr = rd.err, !.n = rd.n,
                            !.a = rd.buf.data, !.loop = src.loop]
    /\ cnt' = [cnt EXCEPT !.reads = @ + 1]
    /\ UNCHANGED <<iface, file, wire>>

CallReadPacket == ReadPacketFrom(ReadSources)

\* a read that finds the bytes last written
ReadBack == ReadPacketFrom(LoopSources)

CallWritePacket ==
    /\ iface.valid
    /\ pkt.valid
    /\ Calls < MaxCalls
    /\ \E out \in WriteOutcomes :
          LET r == WritePacket(heap, file, pkt, out)
          IN  /\ heap' = r.heap
              /\ wire' = IF r.serr = ErrNone
                         THEN [valid |-> TRUE, bytes |-> SubSeq(r.buf, 1, r.n),
                               hlen |-> pkt.Header.len, plen |-> pkt.Payload.len]
                         ELSE wire
              /\ ret' = [NoRet EXCEPT !.op = "WritePacket", !.err = r.err,
                            !.serr = r.serr, !.n = r.n, !.a = r.buf,
                            !.hb = View(heap, pkt.Header),
                            !.pb = View(heap, pkt.Payload),
                            !.proto = pkt.Protocol]
    /\ cnt' = [cnt EXCEPT !.writes = @ + 1]
    /\ UNCHANGED <<pkt, held, iface, file>>

Next ==
    \/ CallOpen
    \/ CallClose
    \/ CallName
    \/ NewPacket
    \/ ReplacePayload
    \/ CallReadPacket
    \/ CallWritePacket

Spec == Init /\ [][Next]_vars

(***************************************************************************)
(* Specification of the round trip: a caller opens a handle, builds a      *)
(* packet, small or as large as the read buffer, writes it and reads back  *)
(* what the stream accepted.                                               *)
(***************************************************************************)
NextRoundTrip ==
    \/ CallOpen
    \/ NewLargePacket
    \/ CallWritePacket
    \/ ReadBack

SpecRoundTrip == Init /\ [][NextRoundTrip]_vars

IsRead == ret.op = "ReadPacket"

IsWrite == ret.op = "WritePacket"

\* the payload length declared in the first 40 bytes of b
Declared(b) == BigEndianUint16(SubSeq(b, 5, 6))

C2_ShortFrame ==
    (IsRead /\ ret.serr = ErrNone
       /\ ret.n < (IF iface.meta THEN 4 ELSE 0) + ipHeaderLength) =>
        ret.err = ErrNotIPv6

\* C3: when the stream write returns no error, WritePacket (of a packet with
\* a 40-byte header, whatever length it declares) returns the short-write
\* error exactly when the count the stream reports differs from the length
\* of the buffer handed to it, and succeeds when they are equal.
C3_ShortWrite ==
    (IsWrite /\ ret.serr = ErrNone /\ Len(ret.hb) = ipHeaderLength) =>
        /\ (ret.err = ErrShortWrite) <=> (ret.n # Len(ret.a))
        /\ (ret.n = Len(ret.a)) => (ret.err = ErrNone)

\* C4: on a handle opened with the meta flag, the buffer WritePacket hands
\* to the stream is two zero bytes, the big-endian Protocol and the payload.
C4_MetaWireFormat ==
    (IsWrite /\ iface.meta) =>
        ret.a = <<0, 0, (ret.proto \div 256) % 256, ret.proto % 256>> \o ret.pb

\* C7: Open returns the error of openDevice with no handle and no stream
\* opened; on a createInterface failure it closes the stream exactly once
\* and returns that error with no handle; when both succeed the handle owns
\* the open stream and stores the resolved name and the meta flag.  A
\* stream is never open without a handle owning it.
C7_OpenNoLeak ==
    /\ ~iface.valid => file.state # "open"
    /\ ret.op = "Open" =>
          /\ ret.serr # ErrNone =>
                /\ ret.err = ret.serr
                /\ ~iface.valid
                /\ file.state = "none" /\ file.closes = 0
          /\ (ret.serr = ErrNone /\ ret.cerr # ErrNone) =>
                /\ ret.err = ret.cerr
                /\ ~iface.valid
                /\ file.state = "closed" /\ file.closes = 1
          /\ (ret.serr = ErrNone /\ ret.cerr = ErrNone) =>
                /\ ret.err = ErrNone
                /\ iface.valid
                /\ file.state = "open" /\ file.closes = 0
                /\ iface.name = ret.name
                /\ iface.meta = ret.meta

C7_Witness ==
    /\ ret.op = "Open"
    /\ ret.serr = ErrNone /\ ret.cerr = ErrCreateInterface
    /\ ret.err = ErrCreateInterface
    /\ file.state = "closed" /\ file.closes = 1

\* C8: no call changes the handle's name or meta flag; ReadPacket,
\* WritePacket and Name leave the stream as it is, whatever they return;
\* Name returns the handle's name; the stream leaves the open state only in
\* a Close call, and a Close call issues one close on the stream and
\* returns its result.
C8_HandleFixed ==
    [][ /\ iface.valid => iface' = iface
        /\ (cnt'.reads # cnt.reads \/ cnt'.writes # cnt.writes \/ ret'.op = "Name")
              => file' = file
        /\ ret'.op = "Name" => ret'.name = iface.name
        /\ (file.state = "open" /\ file'.state # "open") => ret'.op = "Close"
        /\ cnt'.closes # cnt.closes =>
              /\ file'.closes = file.closes + 1
              /\ ret'.err = file'.lastErr
      ]_vars

C8_Witness ==
    /\ ret.op = "Close" /\ ret.err = ErrStream
    /\ file.state = "closed" /\ file.closes = 1
    /\ cnt.reads >= 1 /\ cnt.writes >= 1
    /\ iface.valid /\ iface.name = "tun0" /\ iface.meta

\* the write half of the round trip: a packet with a 40-byte header whose
\* declared length is the payload's length, on a stream taking every byte,
\* is written as header bytes then payload bytes and the call succeeds
RoundTripWrite ==
    (IsWrite /\ ret.serr = ErrNone /\ ret.n = Len(ret.a)
       /\ Len(ret.hb) = ipHeaderLength /\ Declared(ret.hb) = Len(ret.pb)) =>
        /\ ret.err = ErrNone
        /\ ret.a = ret.hb \o ret.pb

\* the read half: the read offered the written bytes returns the packet
RoundTripRead ==
    /\ ret.err = ErrNone
    /\ View(heap, pkt.Header) = SubSeq(wire.bytes, 1, ipHeaderLength)
    /\ View(heap, pkt.Payload) =
          SubSeq(wire.bytes, ipHeaderLength + 1, Len(wire.bytes))
    /\ pkt.Protocol = wire.bytes[1] \div 16
    /\ pkt.Truncated = FALSE

\* a read offered the bytes of a written packet that has a 40-byte header
\* declaring the payload's length
IsLoopRead ==
    /\ IsRead /\ ret.loop /\ ret.serr = ErrNone
    /\ wire.hlen = ipHeaderLength
    /\ Declared(wire.bytes) = wire.plen

C10_NoCallerVisibleEffect ==
    [][ (cnt'.writes # cnt.writes \/ cnt'.reads # cnt.reads) =>
           \A s \in held \cup {pkt.Header, pkt.Payload} :
              View(heap', s) = View(heap, s)
      ]_vars

====
